---- MODULE Spec2Model ----
(***************************************************************************)
(* Model of .github/scripts/observability/ml-anomaly-detector.py:          *)
(* AnomalyDetector (detect_anomalies, the three scorers' results, the       *)
(* ensemble rule, generate_insights, save_results) and main's exit codes.   *)
(*                                                                          *)
(* Real numbers (ratios, rates, losses, confidences) are exact rationals    *)
(* <<numerator, denominator>> in lowest terms with a positive denominator.  *)
(* The fitted models themselves (IsolationForest, the Keras network, the    *)
(* z-score / IQR counts) are black boxes: their outputs are chosen          *)
(* nondeterministically within what the code computes from them.            *)
(***************************************************************************)
EXTENDS Integers, Sequences, FiniteSets, TLC

\* ---------------------------------------------------------------- bounds
MaxRows == 10          \* rows of the loaded DataFrame
MaxOutliers == 1       \* z-score / IQR outliers counted per column
MaxLoss == 4           \* training / validation loss, in arbitrary loss units
DirectDen == 20        \* grid 1/DirectDen of ratios and rates for direct calls
MaxLoads == 3          \* load / feature-build calls on one AnomalyDetector

\* ------------------------------------------------------- exact rationals
RECURSIVE GCD(_, _)
GCD(a, b) == IF b = 0 THEN a ELSE GCD(b, a % b)

Abs(x) == IF x < 0 THEN -x ELSE x

R(n, d) == LET g == GCD(Abs(n), d) IN <<n \div g, d \div g>>

Zero == R(0, 1)
One == R(1, 1)

RAdd(a, b) == R(a[1] * b[2] + b[1] * a[2], a[2] * b[2])
RSub(a, b) == R(a[1] * b[2] - b[1] * a[2], a[2] * b[2])
RMul(a, b) == R(a[1] * b[1], a[2] * b[2])
RDiv(a, b) == R(a[1] * b[2], a[2] * b[1])
RLt(a, b) == a[1] * b[2] < b[1] * a[2]
RLe(a, b) == a[1] * b[2] <= b[1] * a[2]
RMin(a, b) == IF RLt(b, a) THEN b ELSE a
RMax(a, b) == IF RLt(a, b) THEN b ELSE a

RECURSIVE RSum(_)
RSum(s) == IF s = <<>> THEN Zero ELSE RAdd(Head(s), RSum(Tail(s)))

RECURSIVE CountTrue(_)
CountTrue(s) ==
    IF s = <<>> THEN 0 ELSE (IF Head(s) THEN 1 ELSE 0) + CountTrue(Tail(s))

Min2(a, b) == IF a < b THEN a ELSE b
Max2(a, b) == IF a > b THEN a ELSE b

\* dict.get(key, default)
Get(d, key, default) == IF key \in DOMAIN d THEN d[key] ELSE default

\* ------------------------------------------------------------- constants
ModelTypes == {"isolation_forest", "lstm", "all"}
DefaultModelType == "isolation_forest"
DefaultThreshold == R(17, 20)
ConfidenceThresholds == {R(1, 2), DefaultThreshold}
\* self.feature_columns of the loaded data, in column order
FeatureColumns == <<"value">>
Callers == {"main", "detect_anomalies", "ensemble_anomaly_detection",
            "generate_insights", "load_historical_data"}

\* ------------------------------------------------------ the feature builder

\* a DataFrame, by its row count and its numeric columns (timestamp excluded)
EmptyFrame == [rows |-> 0, columns |-> <<>>]
Frame(n, columns) ==
    IF n = 0 THEN EmptyFrame ELSE [rows |-> n, columns |-> columns]

\* the numeric columns a non-empty input can have
ColumnLists == {FeatureColumns, <<"duration", "queue_time">>}

\* _engineer_features: an empty df is returned before self.feature_columns is
\* assigned; fc is self.feature_columns on entry
engineer_features(df, fc) ==
    IF df.rows = 0
    THEN [df |-> df, feature_columns |-> fc]
    ELSE [df |-> df, feature_columns |-> df.columns]

\* load_historical_data: without data frames an empty DataFrame is returned
\* and _engineer_features is not called
load_historical_data(combined_df, fc) ==
    IF combined_df.rows = 0
    THEN [df |-> EmptyFrame, feature_columns |-> fc]
    ELSE engineer_features(combined_df, fc)

\* ------------------------------------------------------------ the scorers

\* train_isolation_forest: flagged of n rows are predicted -1
train_isolation_forest(flagged, n) ==
    [name |-> "isolation_forest", anomaly_ratio |-> R(flagged, n)]

\* _create_sequences: one window per i in range(len(data) - sequence_length + 1)
create_sequences(n, sequence_length) ==
    [count |-> Max2(n - sequence_length + 1, 0), length |-> sequence_length]

\* train_lstm_autoencoder: None without the backend or without windows;
\* X_sequences[:, -1, :] raises IndexError on windows of length 0.
train_lstm_autoencoder(tf, n, training_loss, validation_loss) ==
    IF ~tf THEN [outcome |-> "None"]
    ELSE LET sequence_length == Min2(10, n \div 10)
             X_sequences == create_sequences(n, sequence_length)
         IN  IF X_sequences.count = 0 THEN [outcome |-> "None"]
             ELSE IF X_sequences.length = 0
                  THEN [outcome |-> "raise", cls |-> "IndexError"]
                  ELSE [outcome |-> "result",
                        result |-> [name |-> "lstm_autoencoder",
                                    training_loss |-> R(training_loss, 1),
                                    validation_loss |-> R(validation_loss, 1)]]

\* statistical_anomaly_detection: columns with fewer than 5 values are
\* skipped; details[c] holds the z-score and IQR counts of column c.
RECURSIVE SumAnomalies(_)
SumAnomalies(cols) ==
    IF cols = <<>> THEN 0
    ELSE Head(cols).z_score_anomalies + Head(cols).iqr_anomalies
         + SumAnomalies(Tail(cols))

RECURSIVE SumPoints(_)
SumPoints(cols) ==
    IF cols = <<>> THEN 0 ELSE Head(cols).total_points + SumPoints(Tail(cols))

statistical_anomaly_detection(n, details) ==
    LET anomalies ==
            IF n < 5 THEN <<>>
            ELSE [c \in 1..Len(details) |->
                    [column |-> FeatureColumns[c],
                     z_score_anomalies |-> details[c].z,
                     iqr_anomalies |-> details[c].iqr,
                     total_points |-> n]]
        total_anomalies == SumAnomalies(anomalies)
        total_points == SumPoints(anomalies)
    IN  [name |-> "statistical",
         column_details |-> anomalies,
         total_anomalies |-> total_anomalies,
         total_points |-> total_points,
         anomaly_rate |-> R(total_anomalies, Max2(total_points, 1))]

\* ----------------------------------------------------------- the ensemble

\* density confidence without the clamp at 1.0
density_confidence_unclamped(anomaly_ratio) == RMul(anomaly_ratio, R(10, 1))

density_confidence(anomaly_ratio) == RMin(RMul(anomaly_ratio, R(10, 1)), One)
density_vote(anomaly_ratio) == RLt(R(15, 100), anomaly_ratio)

statistical_confidence(anomaly_rate) == RMin(RMul(anomaly_rate, R(5, 1)), One)
statistical_vote(anomaly_rate) == RLt(R(1, 10), anomaly_rate)

\* the guard without its val_loss > 0 half
lstm_contributes_train_only(train_loss, val_loss) == RLt(Zero, train_loss)

lstm_contributes(train_loss, val_loss) ==
    RLt(Zero, train_loss) /\ RLt(Zero, val_loss)

lstm_confidence(train_loss, val_loss) ==
    LET loss_ratio == RDiv(val_loss, train_loss)
        confidence == IF RLt(One, loss_ratio)
                      THEN RMin(RMul(RSub(loss_ratio, One), R(2, 1)), One)
                      ELSE Zero
    IN  RMax(confidence, Zero)

lstm_vote(train_loss, val_loss) ==
    RLt(R(3, 2), RDiv(val_loss, train_loss))

\* the for loop over models.items(), in insertion order
RECURSIVE EnsembleLoop(_, _, _, _)
EnsembleLoop(models, i, confidences, anomaly_indicators) ==
    IF i > Len(models)
    THEN [confidences |-> confidences, anomaly_indicators |-> anomaly_indicators]
    ELSE LET m == models[i] IN
         IF m.name = "isolation_forest"
         THEN EnsembleLoop(models, i + 1,
                  Append(confidences,
                         density_confidence(Get(m, "anomaly_ratio", Zero))),
                  Append(anomaly_indicators,
                         density_vote(Get(m, "anomaly_ratio", Zero))))
         ELSE IF m.name = "statistical"
         THEN EnsembleLoop(models, i + 1,
                  Append(confidences,
                         statistical_confidence(Get(m, "anomaly_rate", Zero))),
                  Append(anomaly_indicators,
                         statistical_vote(Get(m, "anomaly_rate", Zero))))
         ELSE IF m.name = "lstm_autoencoder"
                 /\ lstm_contributes(Get(m, "training_loss", Zero),
                                     Get(m, "validation_loss", Zero))
         THEN EnsembleLoop(models, i + 1,
                  Append(confidences,
                         lstm_confidence(m.training_loss, m.validation_loss)),
                  Append(anomaly_indicators,
                         lstm_vote(m.training_loss, m.validation_loss)))
         ELSE EnsembleLoop(models, i + 1, confidences, anomaly_indicators)

\* np.mean(confidences) if confidences else 0
ensemble_mean(confidences) ==
    IF confidences = <<>> THEN Zero
    ELSE RDiv(RSum(confidences), R(Len(confidences), 1))

\* a strict majority: anomaly_votes > len(anomaly_indicators) / 2
majority_vote_strict(anomaly_votes, indicator_count) ==
    RLt(R(indicator_count, 2), R(anomaly_votes, 1))

\* anomaly_votes >= len(anomaly_indicators) / 2
majority_vote(anomaly_votes, indicator_count) ==
    RLe(R(indicator_count, 2), R(anomaly_votes, 1))

ensemble_anomaly_detection(models) ==
    LET acc == EnsembleLoop(models, 1, <<>>, <<>>)
        anomaly_votes == CountTrue(acc.anomaly_indicators)
    IN  [confidence |-> ensemble_mean(acc.confidences),
         anomaly_detected |->
             majority_vote(anomaly_votes, Len(acc.anomaly_indicators)),
         model_count |-> Len(models),
         anomaly_votes |-> anomaly_votes,
         individual_confidences |-> acc.confidences]

\* ------------------------------------------------------- detect_anomalies

\* the results skeleton (with its models section) built before the check
NoDataResultWithModels ==
    [anomalies_detected |-> FALSE, message |-> "No data available",
     models |-> <<>>]

\* if data.empty: return {...}
NoDataResult == [anomalies_detected |-> FALSE, message |-> "No data available"]

\* the density scorer run for every model_type
runs_isolation_forest_always(mtype) == TRUE

\* if self.model_type in ['isolation_forest', 'all']
runs_isolation_forest(mtype) == mtype \in {"isolation_forest", "all"}

\* if self.model_type in ['lstm', 'all'] and TENSORFLOW_AVAILABLE
runs_lstm(mtype, tf) == mtype \in {"lstm", "all"} /\ tf

\* the gate with > in place of >=
overall_status_strict(anomaly_confidence, threshold) ==
    RLt(threshold, anomaly_confidence)

\* results['anomalies_detected'] = anomaly_confidence >= self.confidence_threshold
overall_status(anomaly_confidence, threshold) == RLe(threshold, anomaly_confidence)

\* out holds what the fitted scorers produce: flagged rows, per-column
\* importance and outlier counts, the final training / validation losses
detect_anomalies(mtype, threshold, tf, n, out) ==
    IF n = 0 THEN [outcome |-> "return", results |-> NoDataResult]
    ELSE
    LET flagged == out.flagged
        importance == out.importance
        details == out.details
        training_loss == out.training_loss
        validation_loss == out.validation_loss
        iso == IF runs_isolation_forest(mtype)
               THEN <<[name |-> "isolation_forest",
                       anomaly_ratio |->
                           train_isolation_forest(flagged, n).anomaly_ratio,
                       feature_importance |-> importance]>>
               ELSE <<>>
        lstm == IF runs_lstm(mtype, tf)
                THEN train_lstm_autoencoder(tf, n, training_loss, validation_loss)
                ELSE [outcome |-> "None"]
        stat == statistical_anomaly_detection(n, details)
    IN  IF lstm.outcome = "raise"
        THEN [outcome |-> "raise", cls |-> lstm.cls]
        ELSE LET models == iso
                           \o (IF lstm.outcome = "result"
                               THEN <<lstm.result>> ELSE <<>>)
                           \o <<stat>>
                 ensemble_results == ensemble_anomaly_detection(models)
             IN  [outcome |-> "return",
                  results |->
                    [data_points |-> n,
                     models |-> models,
                     ensemble |-> ensemble_results,
                     anomalies_detected |->
                         overall_status(ensemble_results.confidence, threshold),
                     confidence |-> ensemble_results.confidence]]

\* ------------------------------------------------------ generate_insights

CriticalRecommendations ==
    <<"Investigate immediately", "Check recent deployment changes",
      "Monitor system resources", "Consider rollback if necessary">>
HighRecommendations ==
    <<"Investigate within 1 hour", "Check workflow performance metrics",
      "Review recent configuration changes">>
MediumRecommendations ==
    <<"Monitor trends over next few runs", "Review metrics for patterns",
      "Consider tuning anomaly detection thresholds">>
LowRecommendations == <<"Continue normal monitoring">>

\* the critical tier with > in place of >=
is_critical_strict(confidence) == RLt(R(9, 10), confidence)

is_critical(confidence) == RLe(R(9, 10), confidence)
is_high(confidence) == RLe(R(7, 10), confidence)

\* the if / elif / else over anomalies_detected and confidence
severity_branch(anomalies_detected, confidence) ==
    IF anomalies_detected
    THEN IF is_critical(confidence)
         THEN [severity |-> "critical",
               summary |-> "Critical anomalies detected with high confidence",
               recommendations |-> CriticalRecommendations]
         ELSE IF is_high(confidence)
         THEN [severity |-> "high",
               summary |-> "Significant anomalies detected",
               recommendations |-> HighRecommendations]
         ELSE [severity |-> "medium",
               summary |-> "Potential anomalies detected",
               recommendations |-> MediumRecommendations]
    ELSE [severity |-> "low",
          summary |-> "No significant anomalies detected",
          recommendations |-> LowRecommendations]

\* statistical branch: columns with a nonzero combined count, in column order
RECURSIVE statistical_metrics(_)
statistical_metrics(cols) ==
    IF cols = <<>> THEN <<>>
    ELSE LET total_anomalies ==
                 Head(cols).z_score_anomalies + Head(cols).iqr_anomalies
         IN  (IF total_anomalies > 0
              THEN <<[metric |-> Head(cols).column,
                      anomaly_count |-> total_anomalies,
                      detection_method |-> "statistical"]>>
              ELSE <<>>)
             \o statistical_metrics(Tail(cols))

RemoveAt(s, i) == SubSeq(s, 1, i - 1) \o SubSeq(s, i + 1, Len(s))

\* sorted(feature_importance.items(), key=lambda x: x[1], reverse=True):
\* descending and stable
RECURSIVE SortedDesc(_)
SortedDesc(items) ==
    IF items = <<>> THEN <<>>
    ELSE LET i == CHOOSE i \in 1..Len(items) :
                    /\ \A j \in 1..Len(items) :
                          ~RLt(items[i].importance, items[j].importance)
                    /\ \A j \in 1..(i - 1) :
                          RLt(items[j].importance, items[i].importance)
         IN  <<items[i]>> \o SortedDesc(RemoveAt(items, i))

RECURSIVE important_metrics(_)
important_metrics(top_features) ==
    IF top_features = <<>> THEN <<>>
    ELSE (IF RLt(R(1, 2), Head(top_features).importance)
          THEN <<[metric |-> Head(top_features).feature,
                  importance |-> Head(top_features).importance,
                  detection_method |-> "isolation_forest"]>>
          ELSE <<>>)
         \o important_metrics(Tail(top_features))

isolation_forest_metrics(feature_importance) ==
    LET items == [f \in 1..Len(feature_importance) |->
                     [feature |-> FeatureColumns[f],
                      importance |-> feature_importance[f]]]
        sorted == SortedDesc(items)
        top_features == SubSeq(sorted, 1, Min2(5, Len(sorted)))
    IN  important_metrics(top_features)

\* one pass per source: every statistical entry, then every density entry
RECURSIVE metrics_of(_, _)
metrics_of(models, name) ==
    IF models = <<>> THEN <<>>
    ELSE LET m == Head(models) IN
         (IF m.name # name THEN <<>>
          ELSE IF name = "statistical"
          THEN statistical_metrics(Get(m, "column_details", <<>>))
          ELSE isolation_forest_metrics(Get(m, "feature_importance", <<>>)))
         \o metrics_of(Tail(models), name)

affected_metrics_statistical_first(models) ==
    metrics_of(models, "statistical") \o metrics_of(models, "isolation_forest")

\* for model_name, model_results in results.get('models', {}).items()
RECURSIVE affected_metrics(_)
affected_metrics(models) ==
    IF models = <<>> THEN <<>>
    ELSE LET m == Head(models) IN
         (IF m.name = "statistical"
          THEN statistical_metrics(Get(m, "column_details", <<>>))
          ELSE IF m.name = "isolation_forest"
          THEN isolation_forest_metrics(Get(m, "feature_importance", <<>>))
          ELSE <<>>)
         \o affected_metrics(Tail(models))

generate_insights(results) ==
    LET confidence == Get(results, "confidence", Zero)
        anomalies_detected == Get(results, "anomalies_detected", FALSE)
        branch == severity_branch(anomalies_detected, confidence)
    IN  [summary |-> branch.summary,
         recommendations |-> branch.recommendations,
         severity |-> branch.severity,
         affected_metrics |-> affected_metrics(Get(results, "models", <<>>))]

\* ------------------------------------------------------------ save_results

\* where save_results can fail: results_path.mkdir, the first open/json.dump,
\* summary_path.parent.mkdir or the second open, the second json.dump
SaveFaultPoints == {"results_mkdir", "results_dump", "summary_open",
                    "summary_dump"}

\* anomaly_results_<timestamp>.json is written first, current-alerts.json
\* second; a file is "partial" when json.dump failed after open(..., 'w')
NoFiles == [anomaly_results |-> "absent", current_alerts |-> "absent"]

files_after(point) ==
    IF point = "results_mkdir" THEN NoFiles
    ELSE IF point = "results_dump"
    THEN [anomaly_results |-> "partial", current_alerts |-> "absent"]
    ELSE IF point = "summary_open"
    THEN [anomaly_results |-> "complete", current_alerts |-> "absent"]
    ELSE IF point = "summary_dump"
    THEN [anomaly_results |-> "complete", current_alerts |-> "partial"]
    ELSE [anomaly_results |-> "complete", current_alerts |-> "complete"]

\* the alerts list of current-alerts.json
build_alerts(results, insights) ==
    IF results.anomalies_detected
    THEN <<[title |-> insights.summary,
            severity |-> insights.severity,
            confidence |-> results.confidence,
            recommended_actions |-> insights.recommendations,
            slo_impact |-> IF insights.severity \in {"critical", "high"}
                           THEN "high" ELSE "low"]>>
    ELSE <<>>

\* ---------------------------------------------------------------- main

\* except Exception: SystemExit derives from BaseException only
ExceptionClasses == {"ValueError", "IndexError", "OSError"}

\* a bare except (or except BaseException) also catches SystemExit
except_BaseException(cls) == TRUE

except_Exception(cls) == cls \in ExceptionClasses

\* the exit code of the process when cls (SystemExit carrying code) leaves try
process_exit(cls, code) == IF except_Exception(cls) THEN 3 ELSE code

\* the exit-code ladder at the end of main
exit_ladder(results) ==
    IF results.anomalies_detected /\ RLe(R(9, 10), results.confidence) THEN 2
    ELSE IF results.anomalies_detected THEN 1
    ELSE 0

\* ------------------------------------------------------------------ state

VARIABLES
    caller,                 \* who drives the detector: main or a direct call
    pc,                     \* position of that caller
    model_type,             \* config['model_type']
    confidence_threshold,   \* config['confidence_threshold']
    TENSORFLOW_AVAILABLE,   \* the import of tensorflow succeeded
    nrows,                  \* len(data)
    results,                \* the dict built by detect_anomalies
    insights,               \* the dict built by generate_insights
    files,                  \* what save_results has put on disk
    alerts,                 \* the content of current-alerts.json
    raised,                 \* the exception that left the call, if any
    exits,                  \* the exit codes the process has ended with
    feature_columns,        \* self.feature_columns
    data_columns,           \* the numeric columns of the latest DataFrame
    loads                   \* load / feature-build calls made so far

vars == <<caller, pc, model_type, confidence_threshold, TENSORFLOW_AVAILABLE,
          nrows, results, insights, files, alerts, raised, exits,
          feature_columns, data_columns, loads>>

detector == <<feature_columns, data_columns, loads>>

config == <<model_type, confidence_threshold, TENSORFLOW_AVAILABLE>>

None == [none |-> TRUE]
NotRaised == [cls |-> "none", at |-> "none"]

Init ==
    /\ caller \in Callers
    /\ pc = "start"
    /\ IF caller \in {"main", "detect_anomalies"}
       THEN /\ model_type \in ModelTypes
            /\ confidence_threshold \in ConfidenceThresholds
            /\ TENSORFLOW_AVAILABLE \in BOOLEAN
       ELSE /\ model_type = DefaultModelType
            /\ confidence_threshold = DefaultThreshold
            /\ TENSORFLOW_AVAILABLE = FALSE
    /\ nrows = 0
    /\ results = None
    /\ insights = None
    /\ files = NoFiles
    /\ alerts = <<>>
    /\ raised = NotRaised
    /\ exits = <<>>
    /\ feature_columns = <<>>
    /\ data_columns = <<>>
    /\ loads = 0

\* an exception of class cls leaves main's try block at stage `at`
MainRaises(cls, at) ==
    /\ raised' = [cls |-> cls, at |-> at]
    /\ exits' = Append(exits, process_exit(cls, 3))
    /\ pc' = "exited"

\* sys.exit(code) inside the try block
SysExit(code) ==
    /\ exits' = Append(exits, process_exit("SystemExit", code))
    /\ pc' = "exited"

\* data = detector.load_historical_data(); if data.empty: sys.exit(0)
Load ==
    /\ caller = "main" /\ pc = "start"
    /\ \/ \E n \in 0..MaxRows :
            LET loaded == load_historical_data(Frame(n, FeatureColumns),
                                               feature_columns)
            IN  /\ nrows' = loaded.df.rows
                /\ feature_columns' = loaded.feature_columns
                /\ data_columns' = loaded.df.columns
                /\ loads' = loads + 1
                /\ IF loaded.df.rows = 0
                   THEN SysExit(0)
                   ELSE pc' = "loaded" /\ exits' = exits
                /\ raised' = raised
       \/ /\ MainRaises("ValueError", "load")
          /\ nrows' = nrows
          /\ UNCHANGED detector
    /\ UNCHANGED <<caller, config, results, insights, files, alerts>>

\* the outputs the fitted scorers can produce on n rows
Flagged(n) == 0..n
Importances == [DOMAIN FeatureColumns -> {R(1, 4), R(3, 4)}]
Details == [DOMAIN FeatureColumns -> [z : 0..MaxOutliers, iqr : 0..MaxOutliers]]
CountsFit(details, n) ==
    \A c \in DOMAIN details : details[c].z <= n /\ details[c].iqr <= n
TrainingLosses == 0..MaxLoss
ValidationLosses == -1..MaxLoss

ScorerOutputs(flagged, importance, details, tl, vl) ==
    [flagged |-> flagged, importance |-> importance, details |-> details,
     training_loss |-> tl, validation_loss |-> vl]

\* results = detector.detect_anomalies(data), inside main's try block
Detect ==
    /\ caller = "main" /\ pc = "loaded"
    /\ \/ \E flagged \in Flagged(nrows), importance \in Importances,
             details \in Details,
             tl \in TrainingLosses, vl \in ValidationLosses :
            /\ CountsFit(details, nrows)
            /\ LET r == detect_anomalies(model_type, confidence_threshold,
                                         TENSORFLOW_AVAILABLE, nrows,
                                         ScorerOutputs(flagged, importance,
                                                       details, tl, vl))
               IN  IF r.outcome = "raise"
                   THEN MainRaises(r.cls, "detect") /\ results' = results
                   ELSE /\ results' = r.results
                        /\ pc' = "detected"
                        /\ UNCHANGED <<raised, exits>>
       \/ /\ MainRaises("ValueError", "detect")
          /\ results' = results
    /\ UNCHANGED <<caller, config, nrows, insights, files, alerts, detector>>

\* insights = detector.generate_insights(results)
Insights ==
    /\ caller = "main" /\ pc = "detected"
    /\ insights' = generate_insights(results)
    /\ pc' = "insighted"
    /\ UNCHANGED <<caller, config, nrows, results, files, alerts, raised, exits,
                   detector>>

\* detector.save_results(results, insights)
Save ==
    /\ caller = "main" /\ pc = "insighted"
    /\ \/ /\ files' = files_after("none")
          /\ alerts' = build_alerts(results, insights)
          /\ pc' = "saved"
          /\ UNCHANGED <<raised, exits>>
       \/ \E point \in SaveFaultPoints :
            /\ files' = files_after(point)
            /\ alerts' = alerts
            /\ MainRaises("OSError", "save")
    /\ UNCHANGED <<caller, config, nrows, results, insights, detector>>

\* the prints and the exit-code ladder
Exit ==
    /\ caller = "main" /\ pc = "saved"
    /\ SysExit(exit_ladder(results))
    /\ UNCHANGED <<caller, config, nrows, results, insights, files, alerts,
                   raised, detector>>

\* a caller other than main invokes detect_anomalies(data) on any DataFrame
CallDetect ==
    /\ caller = "detect_anomalies" /\ pc = "start"
    /\ \E n \in 0..MaxRows, flagged \in 0..MaxRows,
          importance \in Importances, details \in Details,
          tl \in TrainingLosses, vl \in ValidationLosses :
         /\ flagged \in Flagged(n)
         /\ CountsFit(details, n)
         /\ nrows' = n
         /\ feature_columns' = Frame(n, FeatureColumns).columns
         /\ data_columns' = Frame(n, FeatureColumns).columns
         /\ loads' = loads
         /\ LET r == detect_anomalies(model_type, confidence_threshold,
                                      TENSORFLOW_AVAILABLE, n,
                                      ScorerOutputs(flagged, importance,
                                                    details, tl, vl))
            IN  IF r.outcome = "raise"
                THEN /\ raised' = [cls |-> r.cls, at |-> "detect"]
                     /\ results' = results
                     /\ pc' = "raised"
                ELSE /\ results' = r.results
                     /\ raised' = raised
                     /\ pc' = "returned"
    /\ UNCHANGED <<caller, config, insights, files, alerts, exits>>

\* the scorer results a caller can hand to ensemble_anomaly_detection
DirectGrid == {R(k, DirectDen) : k \in 0..DirectDen}
DirectDensity ==
    {<<>>} \cup {<<[name |-> "isolation_forest", anomaly_ratio |-> r]>> :
                    r \in DirectGrid}
DirectStatistical ==
    {<<>>} \cup {<<[name |-> "statistical", anomaly_rate |-> r]>> :
                    r \in DirectGrid \cup {R(2, 1)}}
DirectSequence ==
    {<<>>} \cup {<<[name |-> "lstm_autoencoder",
                    training_loss |-> R(tl, 1),
                    validation_loss |-> R(vl, 1)]>> :
                    tl \in TrainingLosses, vl \in ValidationLosses}

\* a caller other than main invokes ensemble_anomaly_detection(models)
CallEnsemble ==
    /\ caller = "ensemble_anomaly_detection" /\ pc = "start"
    /\ \E d \in DirectDensity, q \in DirectSequence, s \in DirectStatistical :
         results' = [models |-> d \o q \o s,
                     ensemble |-> ensemble_anomaly_detection(d \o q \o s)]
    /\ pc' = "returned"
    /\ UNCHANGED <<caller, config, nrows, insights, files, alerts, raised,
                   exits, detector>>

\* a caller other than main invokes generate_insights on any verdict
CallInsights ==
    /\ caller = "generate_insights" /\ pc = "start"
    /\ \E c \in DirectGrid, b \in BOOLEAN :
         /\ results' = [confidence |-> c, anomalies_detected |-> b]
         /\ insights' = generate_insights(results')
    /\ pc' = "returned"
    /\ UNCHANGED <<caller, config, nrows, files, alerts, raised, exits,
                   detector>>

\* a caller other than main invokes load_historical_data() again and again
\* on one detector, the metrics directory changing in between
CallLoad ==
    /\ caller = "load_historical_data" /\ loads < MaxLoads
    /\ \E n \in 0..MaxRows, columns \in ColumnLists :
         LET loaded == load_historical_data(Frame(n, columns), feature_columns)
         IN  /\ nrows' = loaded.df.rows
             /\ feature_columns' = loaded.feature_columns
             /\ data_columns' = loaded.df.columns
    /\ loads' = loads + 1
    /\ pc' = "returned"
    /\ UNCHANGED <<caller, config, results, insights, files, alerts, raised,
                   exits>>

\* the same caller invokes _engineer_features(df) on a DataFrame of its own
CallEngineerFeatures ==
    /\ caller = "load_historical_data" /\ loads < MaxLoads
    /\ \E n \in 0..MaxRows, columns \in ColumnLists :
         LET built == engineer_features(Frame(n, columns), feature_columns)
         IN  /\ nrows' = built.df.rows
             /\ feature_columns' = built.feature_columns
             /\ data_columns' = built.df.columns
    /\ loads' = loads + 1
    /\ pc' = "returned"
    /\ UNCHANGED <<caller, config, results, insights, files, alerts, raised,
                   exits>>

Next ==
    \/ Load
    \/ Detect
    \/ Insights
    \/ Save
    \/ Exit
    \/ CallDetect
    \/ CallEnsemble
    \/ CallInsights
    \/ CallLoad
    \/ CallEngineerFeatures

Spec == Init /\ [][Next]_vars

TypeOK ==
    /\ caller \in Callers
    /\ pc \in {"start", "loaded", "detected", "insighted", "saved", "exited",
               "returned", "raised"}
    /\ Len(exits) <= 1

\* ------------------------------------------------------------- properties

HasEnsemble == "ensemble" \in DOMAIN results
FullRun == "data_points" \in DOMAIN results
ModelNames(models) == {models[i].name : i \in 1..Len(models)}
ModelNamed(models, name) ==
    models[CHOOSE i \in 1..Len(models) : models[i].name = name]

\* C1: whatever scorer results ensemble_anomaly_detection is given, the
\* confidence it returns lies in the closed interval [0, 1].
C1_ConfidenceInUnitInterval ==
    HasEnsemble =>
        /\ 0 <= results.ensemble.confidence[1]
        /\ results.ensemble.confidence[1] <= results.ensemble.confidence[2]

\* a density result whose ratio times 10 exceeds 1 went through the ensemble
C1_Witness ==
    /\ HasEnsemble
    /\ "isolation_forest" \in ModelNames(results.models)
    /\ ModelNamed(results.models, "isolation_forest").anomaly_ratio = One
    /\ "lstm_autoencoder" \in ModelNames(results.models)
    /\ results.ensemble.confidence = One

\* the local vote of one scorer result, as the claim words it
LocalVote(m) ==
    IF m.name = "isolation_forest"
    THEN m.anomaly_ratio[1] * 100 > 15 * m.anomaly_ratio[2]
    ELSE IF m.name = "statistical"
    THEN m.anomaly_rate[1] * 10 > m.anomaly_rate[2]
    ELSE 2 * m.validation_loss[1] * m.training_loss[2]
            > 3 * m.training_loss[1] * m.validation_loss[2]

\* a scorer result contributes unless it is a sequence result whose losses
\* are not both strictly positive
Contributes(m) ==
    m.name = "lstm_autoencoder" =>
        m.training_loss[1] > 0 /\ m.validation_loss[1] > 0

Contributing(models) == {i \in 1..Len(models) : Contributes(models[i])}
TrueVotes(models) == {i \in Contributing(models) : LocalVote(models[i])}

\* C2: anomaly_detected is true exactly when twice the number of true local
\* votes is at least the number of contributing scorers (a tie is detected);
\* the statistical scorer alone with anomaly_rate 0 gives confidence 0 and
\* anomaly_detected false.
C2_MajorityVote ==
    HasEnsemble =>
        /\ results.ensemble.anomaly_detected =
              (2 * Cardinality(TrueVotes(results.models))
                  >= Cardinality(Contributing(results.models)))
        /\ (/\ ModelNames(results.models) = {"statistical"}
            /\ ModelNamed(results.models, "statistical").anomaly_rate = Zero)
           => /\ results.ensemble.confidence = Zero
              /\ results.ensemble.anomaly_detected = FALSE

\* a tie: two contributing scorers, one true vote, reported as detected
C2_Witness ==
    /\ HasEnsemble
    /\ Cardinality(Contributing(results.models)) = 2
    /\ Cardinality(TrueVotes(results.models)) = 1
    /\ results.ensemble.anomaly_detected

\* the run's reported verdict does not depend on the ensemble's vote: it is
\* the confidence gate of detect_anomalies
ReportedLow ==
    /\ insights # None => insights.severity = "low"
    /\ (pc = "exited" /\ raised = NotRaised) => exits = <<0>>

\* C3 (as claimed): in a full run the reported verdict is the ensemble's
\* majority-vote anomaly_detected; when that is false the severity is low and
\* the run is classed as no anomaly, whatever the confidence_threshold.
C3_VerdictIsMajorityVote ==
    FullRun =>
        /\ results.anomalies_detected = results.ensemble.anomaly_detected
        /\ ~results.ensemble.anomaly_detected => ReportedLow

\* C3 (amended): in a full run the reported verdict is (ensemble confidence
\* >= confidence_threshold); when that is false the severity is low and the
\* run is classed as no anomaly, whatever the ensemble's anomaly_detected.
C3_VerdictIsConfidenceGate ==
    FullRun =>
        /\ results.anomalies_detected =
              (results.ensemble.confidence[1] * confidence_threshold[2]
                  >= confidence_threshold[1] * results.ensemble.confidence[2])
        /\ results.confidence = results.ensemble.confidence
        /\ ~results.anomalies_detected => ReportedLow

\* a finished run of main whose majority vote said "detected" and whose
\* confidence stayed below the threshold: reported as no anomaly
C3_Witness ==
    /\ caller = "main" /\ pc = "exited" /\ FullRun
    /\ results.ensemble.anomaly_detected
    /\ ~results.anomalies_detected
    /\ insights.severity = "low"
    /\ exits = <<0>>

\* the severity the claim assigns to a verdict
ClaimedSeverity(anomalies_detected, confidence) ==
    IF ~anomalies_detected THEN "low"
    ELSE IF confidence[1] * 10 >= 9 * confidence[2] THEN "critical"
    ELSE IF confidence[1] * 10 >= 7 * confidence[2] THEN "high"
    ELSE "medium"

RecommendationsOf(severity) ==
    IF severity = "critical" THEN CriticalRecommendations
    ELSE IF severity = "high" THEN HighRecommendations
    ELSE IF severity = "medium" THEN MediumRecommendations
    ELSE LowRecommendations

\* C4: generate_insights gives low when anomalies_detected is false, whatever
\* the confidence; otherwise critical for confidence >= 0.90, high for
\* 0.70 <= confidence < 0.90, medium below; each severity has its own fixed
\* ordered recommendation list.
C4_SeverityMapping ==
    insights # None =>
        /\ insights.severity =
              ClaimedSeverity(results.anomalies_detected, results.confidence)
        /\ insights.recommendations = RecommendationsOf(insights.severity)
        /\ \A s, t \in {"critical", "high", "medium", "low"} :
              s # t => RecommendationsOf(s) # RecommendationsOf(t)

\* generate_insights has mapped a detected verdict with confidence exactly
\* 0.90 to critical
C4_Witness ==
    /\ insights # None
    /\ results.anomalies_detected
    /\ results.confidence = R(9, 10)
    /\ insights.severity = "critical"
    /\ insights.recommendations = CriticalRecommendations

\* an anomaly is reported by the run
AnomalyReported == FullRun /\ results.anomalies_detected

\* C5: every run of main ends with exactly one exit code: 0 when no anomaly
\* is reported, 1 when one is reported with confidence < 0.9, 2 when one is
\* reported with confidence >= 0.9, 3 exactly when a fault left the try
\* block; sys.exit(0/1/2) is never turned into 3 by the except clause.
C5_ExitCodes ==
    caller = "main" =>
        /\ Len(exits) <= 1
        /\ (pc = "exited") = (Len(exits) = 1)
        /\ raised # NotRaised =>
              /\ pc = "exited"
              /\ raised.at \in {"load", "detect", "save"}
        /\ pc = "exited" =>
              /\ (exits[1] = 3) = (raised # NotRaised)
              /\ raised = NotRaised =>
                    exits[1] =
                        IF ~AnomalyReported THEN 0
                        ELSE IF results.confidence[1] * 10
                                   >= 9 * results.confidence[2]
                        THEN 2 ELSE 1

\* main has ended with sys.exit(2): the handler let SystemExit through
C5_Witness ==
    /\ caller = "main" /\ pc = "exited"
    /\ raised = NotRaised
    /\ AnomalyReported
    /\ exits = <<2>>

\* C6 (as claimed): when a fault ends the run, the exit code is 3 and neither
\* the detailed results file nor current-alerts.json has been written.
C6_NoPartialReport ==
    (caller = "main" /\ pc = "exited" /\ raised # NotRaised) =>
        /\ exits = <<3>>
        /\ files = NoFiles

\* what the code does: a fault after the first write leaves the detailed
\* results file on disk without the current-alerts summary
C6_PartialReport ==
    /\ caller = "main" /\ pc = "exited"
    /\ raised.at = "save"
    /\ exits = <<3>>
    /\ files.anomaly_results = "complete"
    /\ files.current_alerts = "absent"

\* C7: with zero records, detect_anomalies returns exactly
\* {anomalies_detected: false, message: "No data available"} (no models or
\* ensemble section), no scorer is trained, and main exits with code 0.
C7_NoData ==
    /\ (caller = "detect_anomalies" /\ pc \in {"returned", "raised"}
        /\ nrows = 0) =>
          /\ pc = "returned"
          /\ DOMAIN results = {"anomalies_detected", "message"}
          /\ results.anomalies_detected = FALSE
          /\ results.message = "No data available"
    /\ (caller = "main" /\ pc # "start" /\ raised.at # "load" /\ nrows = 0) =>
          /\ pc = "exited"
          /\ exits = <<0>>
          /\ raised = NotRaised
          /\ results = None
          /\ insights = None
          /\ files = NoFiles

\* detect_anomalies has returned on an empty DataFrame
C7_Witness ==
    /\ caller = "detect_anomalies" /\ pc = "returned"
    /\ nrows = 0
    /\ results = NoDataResult

\* main has exited cleanly on an empty load
C7_WitnessMain ==
    /\ caller = "main" /\ pc = "exited"
    /\ nrows = 0 /\ raised = NotRaised
    /\ exits = <<0>>

\* a sliding window of length min(10, row_count // 10) can be formed
CanFormWindow(n) ==
    LET length == IF n \div 10 < 10 THEN n \div 10 ELSE 10
    IN  length >= 1 /\ n >= length

SequenceRequested == model_type \in {"lstm", "all"}

\* C8 (as claimed): the sequence scorer runs only with its backend and at
\* least one window of length min(10, row_count // 10); otherwise (backend
\* missing, or too few rows, row_count < 10 included) it yields no result,
\* is absent from the models, and the run goes on without a fault.
C8_SequenceDegradesGracefully ==
    (caller \in {"main", "detect_anomalies"} /\ nrows > 0
     /\ pc \notin {"start", "loaded"} /\ raised.at # "load") =>
        /\ (FullRun /\ "lstm_autoencoder" \in ModelNames(results.models)) =>
              (TENSORFLOW_AVAILABLE /\ SequenceRequested
               /\ CanFormWindow(nrows))
        /\ (~TENSORFLOW_AVAILABLE \/ ~CanFormWindow(nrows)) =>
              /\ raised.cls # "IndexError"
              /\ FullRun => "lstm_autoencoder" \notin ModelNames(results.models)

\* what the code does on fewer than 10 rows with the backend available:
\* the windows have length 0, the emptiness guard does not fire, and the
\* run ends on the except path with exit code 3
C8_ShortDataFaults ==
    /\ caller = "main" /\ pc = "exited"
    /\ TENSORFLOW_AVAILABLE /\ SequenceRequested
    /\ nrows > 0 /\ nrows < 10
    /\ raised = [cls |-> "IndexError", at |-> "detect"]
    /\ exits = <<3>>

\* C9 (as claimed): in every run on non-empty data, for every model_type,
\* the scorer results handed to the ensemble contain both a density result
\* and a statistical result.
C9_DensityAndStatisticalAlways ==
    FullRun =>
        /\ "isolation_forest" \in ModelNames(results.models)
        /\ "statistical" \in ModelNames(results.models)

\* C9 (amended): in every run on non-empty data the scorer results handed to
\* the ensemble contain a statistical result, and contain a density result
\* exactly when model_type is isolation_forest or all (not for lstm); only
\* density, sequence and statistical results occur, each at most once.
C9_StatisticalAlwaysDensityByType ==
    FullRun =>
        /\ "statistical" \in ModelNames(results.models)
        /\ ("isolation_forest" \in ModelNames(results.models))
              = (model_type # "lstm")
        /\ ModelNames(results.models) \subseteq
              {"isolation_forest", "lstm_autoencoder", "statistical"}
        /\ Len(results.models) = Cardinality(ModelNames(results.models))
        /\ results.ensemble = ensemble_anomaly_detection(results.models)

\* a run with model_type lstm has handed the ensemble no density result
C9_Witness ==
    /\ FullRun
    /\ model_type = "lstm"
    /\ "isolation_forest" \notin ModelNames(results.models)
    /\ "statistical" \in ModelNames(results.models)

\* the scorer results other than the sequence result
WithoutSequence(models) ==
    SelectSeq(models, LAMBDA m : m.name # "lstm_autoencoder")

\* the confidence the claim gives a contributing sequence result
ClaimedSequenceConfidence(m) ==
    LET t == m.training_loss[1] * m.validation_loss[2]
        v == m.validation_loss[1] * m.training_loss[2]
    IN  IF v <= t THEN Zero
        ELSE IF 2 * (v - t) >= t THEN One
        ELSE R(2 * (v - t), t)

\* the index of the sequence confidence among the individual confidences
SequenceSlot(models) ==
    Cardinality({i \in Contributing(models) :
        i <= CHOOSE j \in 1..Len(models) : models[j].name = "lstm_autoencoder"})

\* C10: a sequence result that is absent or whose losses are not both > 0 is
\* left out of the mean and of the vote count: confidence and
\* anomaly_detected are those of the remaining scorers alone; a contributing
\* one has confidence 0 for r <= 1 and min((r - 1) * 2, 1) for r > 1.
C10_SequenceContribution ==
    HasEnsemble =>
        LET models == results.models
            rest == ensemble_anomaly_detection(WithoutSequence(models))
        IN  IF  \/ "lstm_autoencoder" \notin ModelNames(models)
                \/ ~Contributes(ModelNamed(models, "lstm_autoencoder"))
            THEN /\ results.ensemble.confidence = rest.confidence
                 /\ results.ensemble.anomaly_detected = rest.anomaly_detected
                 /\ results.ensemble.individual_confidences
                       = rest.individual_confidences
            ELSE /\ Len(results.ensemble.individual_confidences)
                       = Len(rest.individual_confidences) + 1
                 /\ results.ensemble.individual_confidences[SequenceSlot(models)]
                       = ClaimedSequenceConfidence(
                             ModelNamed(models, "lstm_autoencoder"))

\* a sequence result with a non-positive validation loss went through the
\* ensemble next to scorers with nonzero confidence
C10_Witness ==
    /\ HasEnsemble
    /\ "lstm_autoencoder" \in ModelNames(results.models)
    /\ ~Contributes(ModelNamed(results.models, "lstm_autoencoder"))
    /\ ModelNamed(results.models, "lstm_autoencoder").training_loss[1] > 0
    /\ Len(results.models) = 3
    /\ results.ensemble.confidence = One

\* a contributing sequence result with 1 < r < 1.5
C10_WitnessContributing ==
    /\ HasEnsemble
    /\ "lstm_autoencoder" \in ModelNames(results.models)
    /\ ModelNamed(results.models, "lstm_autoencoder").training_loss = R(3, 1)
    /\ ModelNamed(results.models, "lstm_autoencoder").validation_loss = R(4, 1)
    /\ R(2, 3) \in {results.ensemble.individual_confidences[i] :
                      i \in 1..Len(results.ensemble.individual_confidences)}

\* the entries of the affected-metrics list that one scorer produced
EntriesOf(metrics, method) ==
    {i \in 1..Len(metrics) : metrics[i].detection_method = method}

\* C11 (as claimed): in the affected-metrics list of a full run, every entry
\* from the statistical scorer comes before every entry from the density
\* scorer.
C11_StatisticalBeforeDensity ==
    (FullRun /\ insights # None) =>
        \A i \in EntriesOf(insights.affected_metrics, "statistical") :
            \A j \in EntriesOf(insights.affected_metrics, "isolation_forest") :
                i < j

\* C11 (amended): in the affected-metrics list of a full run, every entry
\* from the density scorer (importance > 0.5, at most 5, in descending
\* importance) comes before every entry from the statistical scorer (columns
\* with a nonzero z-score + IQR count, in column order).
C11_DensityBeforeStatistical ==
    (FullRun /\ insights # None) =>
        LET metrics == insights.affected_metrics
            density == EntriesOf(metrics, "isolation_forest")
            statistical == EntriesOf(metrics, "statistical")
        IN  /\ \A i \in density : \A j \in statistical : i < j
            /\ density \cup statistical = 1..Len(metrics)
            /\ Cardinality(density) <= 5
            /\ \A i \in density :
                  /\ metrics[i].importance[1] * 2 > metrics[i].importance[2]
                  /\ \A j \in density :
                        i < j => ~RLt(metrics[i].importance,
                                      metrics[j].importance)
            /\ \A j \in statistical : metrics[j].anomaly_count > 0
            /\ Cardinality(statistical)
                  = Cardinality(
                      {c \in 1..Len(ModelNamed(results.models,
                                               "statistical").column_details) :
                          LET d == ModelNamed(results.models,
                                              "statistical").column_details[c]
                          IN  d.z_score_anomalies + d.iqr_anomalies > 0})

\* a full run whose list holds an entry of each scorer
C11_Witness ==
    /\ FullRun /\ insights # None
    /\ EntriesOf(insights.affected_metrics, "isolation_forest") # {}
    /\ EntriesOf(insights.affected_metrics, "statistical") # {}

\* C12 (as claimed): the scorer count of the ensemble verdict (model_count)
\* is the number of scorers that contributed a confidence to the mean and a
\* vote to the majority rule, also for a sequence result whose losses are
\* not both positive.
C12_ModelCountIsContributing ==
    HasEnsemble =>
        /\ results.ensemble.model_count
              = Cardinality(Contributing(results.models))
        /\ results.ensemble.model_count
              = Len(results.ensemble.individual_confidences)

\* what the code does: a sequence result with a non-positive loss is counted
\* in model_count although it gave neither a confidence nor a vote
C12_CountsSilentSequence ==
    /\ FullRun
    /\ "lstm_autoencoder" \in ModelNames(results.models)
    /\ ~Contributes(ModelNamed(results.models, "lstm_autoencoder"))
    /\ results.ensemble.model_count = Len(results.models)
    /\ results.ensemble.model_count
          = Len(results.ensemble.individual_confidences) + 1

\* C13 (as claimed): after any sequence of load / feature-build calls on
\* one AnomalyDetector the feature-column list describes the most recent
\* input only: an empty input leaves an empty list, and no column set of an
\* earlier call is carried over.
C13_ColumnsOfLatestInput ==
    loads > 0 => feature_columns = data_columns

\* what the code does: an empty input after a non-empty one leaves the
\* earlier column list in self.feature_columns
C13_StaleColumns ==
    /\ caller = "load_historical_data"
    /\ loads > 1
    /\ nrows = 0 /\ data_columns = <<>>
    /\ feature_columns # <<>>

====
